---- MODULE Spec2Model ----
(***************************************************************************)
(* A model of commits-tilewall (src/main.rs): main parses the argument     *)
(* vector, generate_commit_image reads two git logs per repository,        *)
(* aggregates them into per-day counts and per-day change statistics,      *)
(* selects the active years, lays out one calendar band per active year    *)
(* and draws day blocks, separator, summary and legend.                    *)
(*                                                                         *)
(* Text is modelled after tokenisation: a line is the sequence of its      *)
(* whitespace-separated fields (what split_whitespace yields), a field is  *)
(* a sequence of tokens, a token is a run of digits (with its value), or   *)
(* one of the characters '-', '+', or a letter.  A date is <<y, m, d>>.    *)
(***************************************************************************)
EXTENDS Integers, Sequences, FiniteSets, Bags, TLC

VARIABLES
    args,                 \* env::args(): the argument vector, args[1] the program name
    arg_i,                \* main's loop index i, as a 1-based position in args
    author,               \* args[1] of the code
    repos,                \* the repository paths handed to generate_commit_image
    theme,                \* the theme name handed to generate_commit_image
    git,                  \* the environment: what git prints for each repository path
    pc,                   \* the position of the run
    repo_i,               \* position of the `for repo in repos` loop
    commit_dates,         \* Vec<NaiveDate>
    commit_stats,         \* HashMap<NaiveDate, (files, added, deleted)>
    commit_count_per_day, \* HashMap<NaiveDate, i32>
    year_commit_counts,   \* HashMap<i32, i32>
    active_years,         \* Vec<i32>
    image,                \* <<width, height>> of the ImageBuffer, <<0, 0>> before one exists
    year_index,           \* position of the `for (year_index, &year)` loop
    blocks,               \* day blocks drawn so far
    texts,                \* draw_sharp_text calls so far
    seps,                 \* separator lines drawn so far
    squares,              \* legend squares (draw_block calls) so far
    summaries,            \* per-year summary values computed so far
    saved,                \* the image file written by main, <<>> when none
    runs,                 \* number of completed aggregations of the same logs
    first                 \* the outcome of the first aggregation and what it read

vars == <<args, arg_i, author, repos, theme, git, pc, repo_i, commit_dates,
          commit_stats, commit_count_per_day, year_commit_counts, active_years,
          image, year_index, blocks, texts, seps, squares, summaries, saved,
          runs, first>>

-----------------------------------------------------------------------------
(* Bounds of the model. *)

MaxStatLines == 3
MaxDateLines == 2
MaxYears == 2
MaxPerDay == 21
MaxArgs == 4

-----------------------------------------------------------------------------
(* Layout constants of generate_commit_image. *)

block_size == 10
space_size == 2
year_spacing == 20
month_grid_width == 4
month_grid_height == 8
month_label_height == block_size * 2
year_height == month_grid_height * (block_size + space_size) + month_label_height
year_label_width == block_size * 5
summary_width == block_size * 45
month_spacing == space_size * 3
min_commits == 5
I32Max == 2147483647

-----------------------------------------------------------------------------
(* Tokens, fields, lines. *)

Digits(n) == [c |-> "d", n |-> n]
Dash == [c |-> "-", n |-> 0]
Plus == [c |-> "+", n |-> 0]
Letter == [c |-> "x", n |-> 0]

None == [some |-> FALSE, v |-> <<0, 0, 0>>]
Some(d) == [some |-> TRUE, v |-> d]

\* chrono's NaiveDate::from_ymd_opt: Some exactly for a date of the proleptic
\* Gregorian calendar.
IsLeapYear(y) == (y % 4 = 0 /\ y % 100 # 0) \/ y % 400 = 0

MonthLengths == <<31, 28, 31, 30, 31, 30, 31, 31, 30, 31, 30, 31>>

FromYmdOpt(y, m, d) ==
    /\ m \in 1..12
    /\ d >= 1
    /\ d <= MonthLengths[m] + (IF m = 2 /\ IsLeapYear(y) THEN 1 ELSE 0)

\* NaiveDate::parse_from_str(line, "%Y-%m-%d"): the whole line is one field
\* digits '-' digits '-' digits naming a valid date.
ParseDate(line) ==
    IF /\ Len(line) = 1
       /\ Len(line[1]) = 5
       /\ line[1][1].c = "d" /\ line[1][2].c = "-" /\ line[1][3].c = "d"
       /\ line[1][4].c = "-" /\ line[1][5].c = "d"
       /\ FromYmdOpt(line[1][1].n, line[1][3].n, line[1][5].n)
    THEN Some(<<line[1][1].n, line[1][3].n, line[1][5].n>>)
    ELSE None

\* str::parse::<i32>: an optional sign, then digits, within the i32 range.
ParseI32(field) ==
    IF Len(field) = 1 /\ field[1].c = "d" /\ field[1].n <= I32Max
    THEN [ok |-> TRUE, v |-> field[1].n]
    ELSE IF Len(field) = 2 /\ field[1].c = "+" /\ field[2].c = "d" /\ field[2].n <= I32Max
    THEN [ok |-> TRUE, v |-> field[2].n]
    ELSE IF Len(field) = 2 /\ field[1].c = "-" /\ field[2].c = "d" /\ field[2].n - 1 <= I32Max
    THEN [ok |-> TRUE, v |-> 0 - field[2].n]
    ELSE [ok |-> FALSE, v |-> 0]

Put(f, k, v) == [x \in (DOMAIN f) \cup {k} |-> IF x = k THEN v ELSE f[x]]

Year(date) == date[1]

-----------------------------------------------------------------------------
(* Aggregation: the body of `for repo in repos`. *)

\* One iteration of `for line in commits.lines()`.
DateLogStep(dates, line) ==
    IF ParseDate(line).some THEN Append(dates, ParseDate(line).v) ELSE dates

RECURSIVE CollectDates(_, _)
CollectDates(lines, dates) ==
    IF lines = <<>> THEN dates
    ELSE CollectDates(Tail(lines), DateLogStep(dates, Head(lines)))

\* The accumulation with `=` in place of `+=`.
AccumulateStat_Overwrite(entry, added, deleted) == <<1, added, deleted>>

\* entry.0 += 1; entry.1 += added; entry.2 += deleted
AccumulateStat(entry, added, deleted) ==
    <<entry[1] + 1, entry[2] + added, entry[3] + deleted>>

IsDashField(field) == field = <<Dash>>

\* One iteration of `for line in stats.lines()`; st = [current_date, commit_stats].
StatLogStep(st, line) ==
    IF ParseDate(line).some
    THEN [st EXCEPT !.current_date = ParseDate(line)]
    ELSE IF st.current_date.some
    THEN IF /\ Len(line) = 3
            /\ ~IsDashField(line[1])
            /\ ~IsDashField(line[2])
            /\ ParseI32(line[1]).ok
            /\ ParseI32(line[2]).ok
         THEN LET date == st.current_date.v
                  entry == IF date \in DOMAIN st.commit_stats
                           THEN st.commit_stats[date] ELSE <<0, 0, 0>>
              IN [st EXCEPT !.commit_stats =
                     Put(st.commit_stats, date,
                         AccumulateStat(entry, ParseI32(line[1]).v, ParseI32(line[2]).v))]
         ELSE st
    ELSE st

RECURSIVE CollectStats(_, _)
CollectStats(lines, st) ==
    IF lines = <<>> THEN st
    ELSE CollectStats(Tail(lines), StatLogStep(st, Head(lines)))

\* Lines 158-208 for one repository; a git that cannot be started panics.
CollectRepo ==
    /\ pc = "collect"
    /\ repo_i <= Len(repos)
    /\ LET out == git[repos[repo_i]] IN
       IF ~out.spawn
       THEN /\ pc' = "panicked"
            /\ UNCHANGED <<commit_dates, commit_stats, repo_i>>
       ELSE /\ commit_dates' = CollectDates(out.dates, commit_dates)
            /\ commit_stats' =
                 CollectStats(out.stats,
                              [current_date |-> None, commit_stats |-> commit_stats]).commit_stats
            /\ repo_i' = repo_i + 1
            /\ pc' = "collect"
    /\ UNCHANGED <<args, arg_i, author, repos, theme, git, commit_count_per_day,
                   year_commit_counts, active_years, image, year_index, blocks,
                   texts, seps, squares, summaries, saved, runs, first>>

RECURSIVE CountDates(_, _)
CountDates(dates, counts) ==
    IF dates = <<>> THEN counts
    ELSE CountDates(Tail(dates),
                    Put(counts, Head(dates),
                        (IF Head(dates) \in DOMAIN counts THEN counts[Head(dates)] ELSE 0) + 1))

\* What the first run read: the stat lines of a log, each with the date line
\* it follows.
RECURSIVE Attribution(_, _)
Attribution(lines, cursor) ==
    IF lines = <<>> THEN EmptyBag
    ELSE IF ParseDate(Head(lines)).some
    THEN Attribution(Tail(lines), ParseDate(Head(lines)))
    ELSE SetToBag({<<cursor, Head(lines)>>}) (+) Attribution(Tail(lines), cursor)

RECURSIVE AttributionOfAll(_, _)
AttributionOfAll(g, paths) ==
    IF paths = <<>> THEN EmptyBag
    ELSE Attribution(g[Head(paths)].stats, None) (+) AttributionOfAll(g, Tail(paths))

\* Lines 210-214.
CountPerDay ==
    /\ pc = "collect"
    /\ repo_i > Len(repos)
    /\ commit_count_per_day' = CountDates(commit_dates, <<>>)
    /\ pc' = "counted"
    /\ runs' = IF runs < 2 THEN runs + 1 ELSE runs
    /\ first' = IF runs = 0
                THEN [index |-> commit_count_per_day', stats |-> commit_stats,
                      repos |-> repos, attribution |-> AttributionOfAll(git, repos)]
                ELSE first
    /\ UNCHANGED <<args, arg_i, author, repos, theme, git, repo_i, commit_dates,
                   commit_stats, year_commit_counts, active_years, image, year_index,
                   blocks, texts, seps, squares, summaries, saved>>

-----------------------------------------------------------------------------
(* Themes. *)

\* str::to_lowercase on the theme names the model uses.
ToLowercase(s) ==
    CASE s = "Dark" -> "dark"
      [] s = "GitHub" -> "github"
      [] s = "Light" -> "light"
      [] OTHER -> s

ThemeDark ==
    [background |-> <<30, 30, 30, 255>>,
     text_primary |-> <<255, 255, 255, 255>>,
     text_secondary |-> <<200, 200, 200, 255>>,
     separator |-> <<70, 70, 70, 255>>,
     commit_colors |-> << <<50, 50, 50, 255>>, <<40, 160, 40, 255>>, <<60, 200, 60, 255>>,
                          <<80, 240, 80, 255>>, <<120, 255, 120, 255>>, <<160, 255, 160, 255>> >>]

ThemeLight ==
    [background |-> <<255, 255, 255, 255>>,
     text_primary |-> <<50, 50, 50, 255>>,
     text_secondary |-> <<100, 100, 100, 255>>,
     separator |-> <<220, 220, 220, 255>>,
     commit_colors |-> << <<240, 240, 240, 255>>, <<140, 240, 140, 255>>, <<100, 220, 100, 255>>,
                          <<60, 200, 60, 255>>, <<40, 180, 40, 255>>, <<20, 160, 20, 255>> >>]

ThemeGithub ==
    [background |-> <<255, 255, 255, 255>>,
     text_primary |-> <<24, 23, 23, 255>>,
     text_secondary |-> <<87, 96, 106, 255>>,
     separator |-> <<235, 237, 240, 255>>,
     commit_colors |-> << <<235, 237, 240, 255>>, <<155, 233, 168, 255>>, <<100, 220, 123, 255>>,
                          <<64, 196, 99, 255>>, <<48, 161, 78, 255>>, <<33, 110, 57, 255>> >>]

\* Lines 134-138.
ThemeOf(theme_name) ==
    CASE ToLowercase(theme_name) = "dark" -> ThemeDark
      [] ToLowercase(theme_name) = "github" -> ThemeGithub
      [] OTHER -> ThemeLight

\* get_commit_color with the arm 2..=5 in place of 2..=4.
GetCommitColor_WideBucket(commit_count, th) ==
    CASE commit_count = 0 -> th.commit_colors[1]
      [] commit_count = 1 -> th.commit_colors[2]
      [] commit_count \in 2..5 -> th.commit_colors[3]
      [] commit_count \in 6..9 -> th.commit_colors[4]
      [] commit_count \in 10..19 -> th.commit_colors[5]
      [] OTHER -> th.commit_colors[6]

\* get_commit_color; colors[k] of the code is commit_colors[k + 1] here.
GetCommitColor(commit_count, th) ==
    CASE commit_count = 0 -> th.commit_colors[1]
      [] commit_count = 1 -> th.commit_colors[2]
      [] commit_count \in 2..4 -> th.commit_colors[3]
      [] commit_count \in 5..9 -> th.commit_colors[4]
      [] commit_count \in 10..19 -> th.commit_colors[5]
      [] OTHER -> th.commit_colors[6]

-----------------------------------------------------------------------------
(* Year totals and the active years. *)

RECURSIVE SumOver(_, _)
SumOver(f, keys) ==
    IF keys = {} THEN 0
    ELSE LET k == CHOOSE x \in keys : TRUE IN f[k] + SumOver(f, keys \ {k})

\* Lines 217-220.
YearCounts(index) ==
    [y \in {Year(d) : d \in DOMAIN index} |->
        SumOver(index, {d \in DOMAIN index : Year(d) = y})]

\* The filter with `>` in place of `>=`.
IsActive_MoreThan(count) == count > min_commits

\* The filter of line 226.
IsActive(count) == count >= min_commits

\* The orders in which a HashMap's iterator may yield the keys.
Orderings(S) ==
    {f \in [1..Cardinality(S) -> S] : \A i, j \in 1..Cardinality(S) : i # j => f[i] # f[j]}

RECURSIVE InsertDesc(_, _)
InsertDesc(sorted, y) ==
    IF sorted = <<>> THEN <<y>>
    ELSE IF y >= Head(sorted) THEN <<y>> \o sorted
    ELSE <<Head(sorted)>> \o InsertDesc(Tail(sorted), y)

RECURSIVE SortDescFrom(_, _)
SortDescFrom(rest, sorted) ==
    IF rest = <<>> THEN sorted
    ELSE SortDescFrom(Tail(rest), InsertDesc(sorted, Head(rest)))

\* active_years.sort_unstable_by(|a, b| b.cmp(a))
SortDesc(s) == SortDescFrom(s, <<>>)

\* The test with len() <= 1 in place of is_empty().
NothingToRender_OffByOne(ays) == Len(ays) <= 1

\* active_years.is_empty(), line 238.
NothingToRender(ays) == ays = <<>>

\* Lines 216-241.
SelectActiveYears ==
    /\ pc = "counted"
    /\ year_commit_counts' = YearCounts(commit_count_per_day)
    /\ \E order \in Orderings({y \in DOMAIN year_commit_counts' :
                                  IsActive(year_commit_counts'[y])}) :
           active_years' = SortDesc(order)
    /\ IF NothingToRender(active_years')
       THEN image' = <<1, 1>> /\ pc' = "returned"
       ELSE image' = image /\ pc' = "create"
    /\ UNCHANGED <<args, arg_i, author, repos, theme, git, repo_i, commit_dates,
                   commit_stats, commit_count_per_day, year_index, blocks, texts,
                   seps, squares, summaries, saved, runs, first>>

-----------------------------------------------------------------------------
(* Layout. *)

Width ==
    year_label_width
    + 12 * (month_grid_width * (block_size + space_size) + month_spacing)
    + summary_width
    + space_size * 4

Height(years_count) == (year_height + year_spacing) * years_count

\* Lines 243-256.
CreateImage ==
    /\ pc = "create"
    /\ image' = <<Width, Height(Len(active_years))>>
    /\ year_index' = 0
    /\ pc' = "draw"
    /\ UNCHANGED <<args, arg_i, author, repos, theme, git, repo_i, commit_dates,
                   commit_stats, commit_count_per_day, year_commit_counts,
                   active_years, blocks, texts, seps, squares, summaries, saved,
                   runs, first>>

YearOffset(yi) == yi * (year_height + year_spacing)

MonthXOffset(month) ==
    year_label_width
    + (month - 1) * (month_grid_width * (block_size + space_size) + month_spacing)

\* The day counts with the leap year test `year % 4 == 0` alone.
DaysInMonth_Julian(year, month) ==
    CASE month \in {1, 3, 5, 7, 8, 10, 12} -> 31
      [] month = 2 -> IF year % 4 = 0 THEN 29 ELSE 28
      [] month \in {4, 6, 9, 11} -> 30
      [] OTHER -> 0

\* Lines 294-308.
DaysInMonth(year, month) ==
    CASE month \in {1, 3, 5, 7, 8, 10, 12} -> 31
      [] month = 2 -> IF year % 4 = 0 /\ (year % 100 # 0 \/ year % 400 = 0) THEN 29 ELSE 28
      [] month \in {4, 6, 9, 11} -> 30
      [] OTHER -> 0

BlockX(month, day) ==
    MonthXOffset(month) + ((day - 1) % month_grid_width) * (block_size + space_size)

\* The block's y without month_label_height.
BlockY_NoLabel(yi, day) ==
    YearOffset(yi) + ((day - 1) \div month_grid_width) * (block_size + space_size)

BlockY(yi, day) ==
    YearOffset(yi) + month_label_height
    + ((day - 1) \div month_grid_width) * (block_size + space_size)

\* Lines 319-328.
DayColor(year, month, day, index, th) ==
    IF FromYmdOpt(year, month, day)
    THEN IF <<year, month, day>> \in DOMAIN index
         THEN GetCommitColor(index[<<year, month, day>>], th)
         ELSE GetCommitColor(0, th)
    ELSE th.commit_colors[1]

\* Lines 275-343: the day blocks of one year.
DayBlocks(yi, year, index, th) ==
    {[yi |-> yi, year |-> year, month |-> md[1], day |-> md[2],
      x |-> BlockX(md[1], md[2]), y |-> BlockY(yi, md[2]),
      color |-> DayColor(year, md[1], md[2], index, th)] :
        md \in {p \in (1..12) \X (1..31) :
                   /\ p[2] \in 1..DaysInMonth(year, p[1])
                   /\ (p[2] - 1) \div month_grid_width < month_grid_height
                   /\ p[2] <= DaysInMonth(year, p[1])}}

SummaryX == Width - summary_width - space_size * 2
LegendX == SummaryX + block_size * 20
LegendTextX == LegendX + block_size + space_size * 2

LegendRowY(yi, i) == YearOffset(yi) + (i + 7) * (block_size + space_size)

\* The y handed to draw_sharp_text at line 440.
LegendTextY(yi, i) == (i + 7) * (block_size + space_size)

LevelRange(i) ==
    CASE i = 0 -> 1..1
      [] i = 1 -> 2..4
      [] i = 2 -> 5..9
      [] i = 3 -> 10..19

\* The filters with the half-open range 2..4 in place of 2..=4.
InLevel_HalfOpen(i, count) ==
    IF i = 4 THEN count >= 20
    ELSE IF i = 1 THEN count \in 2..3
    ELSE count \in LevelRange(i)

\* The five filters of lines 371-387.
InLevel(i, count) == IF i = 4 THEN count >= 20 ELSE count \in LevelRange(i)

LevelCounts(index, year) ==
    [i \in 0..4 |->
        Cardinality({d \in DOMAIN index : Year(d) = year /\ InLevel(i, index[d])})]

\* Lines 359-368.
YearTotal(index, year) == SumOver(index, {d \in DOMAIN index : Year(d) = year})

YearStats(stats, year) ==
    LET ds == {d \in DOMAIN stats : Year(d) = year} IN
    <<SumOver([d \in ds |-> stats[d][1]], ds),
      SumOver([d \in ds |-> stats[d][2]], ds),
      SumOver([d \in ds |-> stats[d][3]], ds)>>

Text(kind, yi, i, x, y) == [kind |-> kind, yi |-> yi, i |-> i, x |-> x, y |-> y]

\* Lines 262-291 and 389-407: year label, month labels, summary lines.
YearTexts(yi) ==
    {Text("year", yi, 0, 5, (YearOffset(yi) + (year_height \div 2)) - (block_size \div 2))}
    \cup {Text("month", yi, m, MonthXOffset(m), YearOffset(yi)) : m \in 1..12}
    \cup {Text("summary", yi, i, SummaryX,
               YearOffset(yi) + block_size + i * (block_size + space_size)) : i \in 0..3}

\* The guard of lines 411-413.
LegendRowFits(yi, i, count, w, h) ==
    /\ count > 0
    /\ LegendX + block_size <= w
    /\ LegendRowY(yi, i) + block_size <= h

\* Lines 409-447.
LegendSquares(yi, levels, w, h, th) ==
    {[yi |-> yi, i |-> i, x |-> LegendX, y |-> LegendRowY(yi, i),
      color |-> th.commit_colors[i + 2]] :
        i \in {k \in 0..4 : LegendRowFits(yi, k, levels[k], w, h)}}

LegendTexts(yi, levels, w, h) ==
    {Text("legend", yi, i, LegendTextX, LegendTextY(yi, i)) :
        i \in {k \in 0..4 : /\ LegendRowFits(yi, k, levels[k], w, h)
                            /\ LegendTextX + block_size * 15 <= w}}

\* Lines 259-448: one iteration of `for (year_index, &year) in active_years`.
DrawYear ==
    /\ pc = "draw"
    /\ year_index < Len(active_years)
    /\ LET year == active_years[year_index + 1]
           th == ThemeOf(theme)
           levels == LevelCounts(commit_count_per_day, year)
       IN /\ blocks' = blocks \cup DayBlocks(year_index, year, commit_count_per_day, th)
          /\ texts' = texts \cup YearTexts(year_index)
                            \cup LegendTexts(year_index, levels, image[1], image[2])
          /\ seps' = IF year_index > 0
                     THEN seps \cup {[yi |-> year_index,
                                      y |-> YearOffset(year_index) - (year_spacing \div 2),
                                      x0 |-> 0, x1 |-> image[1]]}
                     ELSE seps
          /\ squares' = squares \cup LegendSquares(year_index, levels, image[1], image[2], th)
          /\ summaries' = summaries \cup
                 {[yi |-> year_index, year |-> year,
                   year_total |-> YearTotal(commit_count_per_day, year),
                   year_stats |-> YearStats(commit_stats, year),
                   level_counts |-> levels]}
    /\ year_index' = year_index + 1
    /\ UNCHANGED <<args, arg_i, author, repos, theme, git, pc, repo_i, commit_dates,
                   commit_stats, commit_count_per_day, year_commit_counts,
                   active_years, image, saved, runs, first>>

\* Line 450.
ReturnImage ==
    /\ pc = "draw"
    /\ year_index = Len(active_years)
    /\ pc' = "returned"
    /\ UNCHANGED <<args, arg_i, author, repos, theme, git, repo_i, commit_dates,
                   commit_stats, commit_count_per_day, year_commit_counts,
                   active_years, image, year_index, blocks, texts, seps, squares,
                   summaries, saved, runs, first>>

-----------------------------------------------------------------------------
(* generate_commit_image's entry, and main. *)

\* Lines 134-156: theme, constants, font, the two empty collections.  The font
\* is found or load_system_font panics.
LoadFont ==
    /\ pc = "generate"
    /\ \E font_ok \in BOOLEAN :
          pc' = IF font_ok THEN "collect" ELSE "panicked"
    /\ repo_i' = 1
    /\ commit_dates' = <<>>
    /\ commit_stats' = <<>>
    /\ UNCHANGED <<args, arg_i, author, repos, theme, git, commit_count_per_day,
                   year_commit_counts, active_years, image, year_index, blocks,
                   texts, seps, squares, summaries, saved, runs, first>>

\* Lines 456-465.
CheckArgs ==
    /\ pc = "main"
    /\ IF Len(args) < 3
       THEN /\ pc' = "exit1"
            /\ UNCHANGED <<author, arg_i>>
       ELSE /\ pc' = "parse"
            /\ author' = args[2]
            /\ arg_i' = 3
    /\ repos' = <<>>
    /\ theme' = "light"
    /\ UNCHANGED <<args, git, repo_i, commit_dates, commit_stats,
                   commit_count_per_day, year_commit_counts, active_years, image,
                   year_index, blocks, texts, seps, squares, summaries, saved,
                   runs, first>>

\* One iteration of the while loop of lines 468-476.
ParseArg ==
    /\ pc = "parse"
    /\ arg_i <= Len(args)
    /\ IF args[arg_i] = "--theme" /\ arg_i + 1 <= Len(args)
       THEN /\ theme' = args[arg_i + 1]
            /\ arg_i' = arg_i + 2
            /\ repos' = repos
       ELSE /\ repos' = Append(repos, args[arg_i])
            /\ arg_i' = arg_i + 1
            /\ theme' = theme
    /\ UNCHANGED <<args, author, git, pc, repo_i, commit_dates, commit_stats,
                   commit_count_per_day, year_commit_counts, active_years, image,
                   year_index, blocks, texts, seps, squares, summaries, saved,
                   runs, first>>

\* Line 478: the call.
CallGenerate ==
    /\ pc = "parse"
    /\ arg_i > Len(args)
    /\ pc' = "generate"
    /\ UNCHANGED <<args, arg_i, author, repos, theme, git, repo_i, commit_dates,
                   commit_stats, commit_count_per_day, year_commit_counts,
                   active_years, image, year_index, blocks, texts, seps, squares,
                   summaries, saved, runs, first>>

\* author.replace(" ", "_") on the author names the model uses.
ReplaceSpaces(s) == IF s = "j d" THEN "j_d" ELSE s

\* Lines 479-480: the file is written or img.save panics.
SaveImage ==
    /\ pc = "returned"
    /\ \E save_ok \in BOOLEAN :
          IF save_ok
          THEN /\ pc' = "saved"
               /\ saved' = <<"commit_image_", ReplaceSpaces(author), ".png", image>>
          ELSE /\ pc' = "panicked"
               /\ saved' = saved
    /\ UNCHANGED <<args, arg_i, author, repos, theme, git, repo_i, commit_dates,
                   commit_stats, commit_count_per_day, year_commit_counts,
                   active_years, image, year_index, blocks, texts, seps, squares,
                   summaries, runs, first>>

-----------------------------------------------------------------------------
(* The same logs read again in another order: the repositories exchanged,   *)
(* or two neighbouring lines of one log exchanged, and the program run      *)
(* again.                                                                   *)

SwapAt(s, i) ==
    [k \in 1..Len(s) |-> IF k = i THEN s[i + 1] ELSE IF k = i + 1 THEN s[i] ELSE s[k]]

Rerun ==
    /\ pc' = "generate"
    /\ repo_i' = 1
    /\ commit_dates' = <<>>
    /\ commit_stats' = <<>>
    /\ commit_count_per_day' = <<>>
    /\ UNCHANGED <<args, arg_i, author, theme, year_commit_counts, active_years,
                   image, year_index, blocks, texts, seps, squares, summaries,
                   saved, runs, first>>

SwapRepos ==
    /\ pc = "counted"
    /\ Len(repos) = 2
    /\ repos' = SwapAt(repos, 1)
    /\ git' = git
    /\ Rerun

SwapDateLines ==
    /\ pc = "counted"
    /\ \E r \in DOMAIN git : \E i \in 1..(Len(git[r].dates) - 1) :
          git' = [git EXCEPT ![r].dates = SwapAt(git[r].dates, i)]
    /\ repos' = repos
    /\ Rerun

SwapStatLines ==
    /\ pc = "counted"
    /\ \E r \in DOMAIN git : \E i \in 1..(Len(git[r].stats) - 1) :
          git' = [git EXCEPT ![r].stats = SwapAt(git[r].stats, i)]
    /\ repos' = repos
    /\ Rerun

-----------------------------------------------------------------------------
(* Inputs. *)

DateLine(d) == << <<Digits(d[1]), Dash, Digits(d[2]), Dash, Digits(d[3])>> >>
StatLine(a, b) == << <<Digits(a)>>, <<Digits(b)>>, <<Letter>> >>

RECURSIVE Repeat(_, _)
Repeat(x, n) == IF n = 0 THEN <<>> ELSE <<x>> \o Repeat(x, n - 1)

SeqsUpTo(S, n) == UNION {[1..k -> S] : k \in 0..n}

Log(dates, stats) == [spawn |-> TRUE, dates |-> dates, stats |-> stats]

GenStart ==
    /\ args = <<>>
    /\ arg_i = 0
    /\ author = "a"
    /\ pc = "generate"
    /\ repo_i = 1
    /\ commit_dates = <<>>
    /\ commit_stats = <<>>
    /\ commit_count_per_day = <<>>
    /\ year_commit_counts = <<>>
    /\ active_years = <<>>
    /\ image = <<0, 0>>
    /\ year_index = 0
    /\ blocks = {}
    /\ texts = {}
    /\ seps = {}
    /\ squares = {}
    /\ summaries = {}
    /\ saved = <<>>
    /\ runs = 0
    /\ first = <<>>

\* Logs for the aggregation: two repositories sharing a few date lines, two
\* repositories with one commit each sharing a few well-formed numstat lines,
\* or one repository with malformed lines as well.
PlainDateLines == {DateLine(<<2023, 6, 15>>), DateLine(<<2023, 6, 16>>)}
PlainStatLines == PlainDateLines \cup {StatLine(3, 2), StatLine(1, 0)}

NoisyStatLines ==
    {DateLine(<<2023, 6, 15>>),
     StatLine(3, 2),
     << <<Dash, Digits(5)>>, <<Digits(3)>>, <<Letter>> >>,
     << <<Plus, Digits(4)>>, <<Digits(1)>>, <<Letter>> >>,
     << <<Dash>>, <<Dash>>, <<Letter>> >>,
     << <<Digits(3)>>, <<Digits(2)>> >>,
     << <<Digits(3)>>, <<Digits(2)>>, <<Letter>>, <<Letter>> >>,
     << <<Letter>>, <<Digits(1)>>, <<Letter>> >>,
     DateLine(<<2023, 2, 30>>)}

NoisyDateLines == {DateLine(<<2023, 2, 30>>)}

InitAgg ==
    /\ GenStart
    /\ theme = "light"
    /\ \/ /\ repos = <<"r1", "r2">>
          /\ \E d \in {p \in SeqsUpTo(PlainDateLines, MaxDateLines)
                             \X SeqsUpTo(PlainDateLines, MaxDateLines) :
                          Len(p[1]) + Len(p[2]) <= MaxDateLines} :
                git = [r \in {"r1", "r2"} |->
                          IF r = "r1" THEN Log(d[1], <<>>) ELSE Log(d[2], <<>>)]
       \/ /\ repos = <<"r1", "r2">>
          /\ \E s \in {p \in SeqsUpTo(PlainStatLines, MaxStatLines)
                             \X SeqsUpTo(PlainStatLines, MaxStatLines) :
                          Len(p[1]) + Len(p[2]) <= MaxStatLines} :
                git = [r \in {"r1", "r2"} |->
                          IF r = "r1"
                          THEN Log(<<DateLine(<<2023, 6, 15>>)>>, s[1])
                          ELSE Log(<<DateLine(<<2023, 6, 16>>)>>, s[2])]
       \/ /\ repos = <<"r1">>
          /\ \E d \in SeqsUpTo(NoisyDateLines, 1) :
             \E s \in SeqsUpTo(NoisyStatLines, MaxStatLines) :
                git = [r \in {"r1"} |-> Log(d, s)]

NextAgg ==
    \/ LoadFont
    \/ CollectRepo
    \/ CountPerDay
    \/ SwapRepos
    \/ SwapDateLines
    \/ SwapStatLines

SpecAgg == InitAgg /\ [][NextAgg]_vars

\* Logs for the calendar: four days in three years, spread over two
\* repositories, with commit counts around every bucket boundary.
DayA == <<2021, 3, 1>>
DayB == <<2020, 2, 29>>
DayC == <<2020, 12, 31>>
DayD == <<2019, 7, 4>>

CountsA == {0, 1, 2, 4, 5}
CountsB == {0, 4, 5, 9, 10}
CountsC == {0, 1, 19, 20, MaxPerDay}
CountsD == {0, 4, 5}

StatsFor(d, n) == IF n = 0 THEN <<>> ELSE <<DateLine(d), StatLine(3, 2)>>

InitGen ==
    /\ GenStart
    /\ theme \in {"light", "Dark", "github"}
    /\ repos = <<"r1", "r2">>
    /\ \E a \in CountsA, b \in CountsB, c \in CountsC, d \in CountsD :
          git = [r \in {"r1", "r2"} |->
                   IF r = "r1"
                   THEN Log(Repeat(DateLine(DayA), a) \o Repeat(DateLine(DayB), b),
                            StatsFor(DayA, a) \o StatsFor(DayB, b))
                   ELSE Log(Repeat(DateLine(DayC), c) \o Repeat(DateLine(DayD), d),
                            StatsFor(DayC, c) \o StatsFor(DayD, d))]

\* Logs for the layout: up to MaxYears years of a pool holding the leap-year
\* cases, each with five commits on its first of January.
YearPool == {1900, 2000, 2020, 2021, 2100, 2400}

RECURSIVE YearLogs(_)
YearLogs(years) ==
    IF years = <<>> THEN <<>>
    ELSE Repeat(DateLine(<<Head(years), 1, 1>>), min_commits) \o YearLogs(Tail(years))

InitLayout ==
    /\ GenStart
    /\ theme = "light"
    /\ repos = <<"r1">>
    /\ \E ys \in {S \in SUBSET YearPool : Cardinality(S) <= MaxYears} :
          git = [r \in {"r1"} |->
                   Log(YearLogs(SortDesc(CHOOSE o \in Orderings(ys) : TRUE)), <<>>)]

\* Argument vectors, and a file system where "a" and "b" are repositories and
\* no other argument names a directory.
ArgTokens == {"a", "b", "j d", "--theme", "dark"}

MainGit ==
    [t \in ArgTokens |->
        CASE t = "a" -> Log(Repeat(DateLine(<<2023, 6, 15>>), 5),
                            <<DateLine(<<2023, 6, 15>>), StatLine(3, 2)>>)
          [] t = "b" -> Log(Repeat(DateLine(<<2022, 1, 1>>), 2), <<>>)
          [] OTHER -> [spawn |-> FALSE, dates |-> <<>>, stats |-> <<>>]]

InitMain ==
    /\ args \in {<<"prog">> \o s : s \in SeqsUpTo(ArgTokens, MaxArgs)}
    /\ arg_i = 0
    /\ author = ""
    /\ repos = <<>>
    /\ theme = ""
    /\ git = MainGit
    /\ pc = "main"
    /\ repo_i = 1
    /\ commit_dates = <<>>
    /\ commit_stats = <<>>
    /\ commit_count_per_day = <<>>
    /\ year_commit_counts = <<>>
    /\ active_years = <<>>
    /\ image = <<0, 0>>
    /\ year_index = 0
    /\ blocks = {}
    /\ texts = {}
    /\ seps = {}
    /\ squares = {}
    /\ summaries = {}
    /\ saved = <<>>
    /\ runs = 0
    /\ first = <<>>

NextGen ==
    \/ LoadFont
    \/ CollectRepo
    \/ CountPerDay
    \/ SelectActiveYears
    \/ CreateImage
    \/ DrawYear
    \/ ReturnImage

NextMain ==
    \/ CheckArgs
    \/ ParseArg
    \/ CallGenerate
    \/ NextGen
    \/ SaveImage

SpecGen == InitGen /\ [][NextGen]_vars
SpecLayout == InitLayout /\ [][NextGen]_vars
SpecMain == InitMain /\ [][NextMain]_vars

-----------------------------------------------------------------------------
(* Properties of the aggregation. *)

AggregationDone == pc = "counted"
Reordered == AggregationDone /\ runs = 2

SameAttribution == AttributionOfAll(git, repos) = first.attribution

\* C2 as stated: whatever the order of the repositories and of the lines of
\* either log, the per-day counts and the per-day statistics are those of the
\* first order.
C2_AnyOrderSameMaps ==
    Reordered => /\ commit_count_per_day = first.index
                 /\ commit_stats = first.stats

\* C2 as amended: the per-day counts are those of the first order whatever the
\* order of the repositories and of the lines; the per-day statistics are
\* those of the first order whenever every stat line still follows the same
\* date line as before.
C2_OrderIndependence ==
    Reordered => /\ commit_count_per_day = first.index
                 /\ SameAttribution => commit_stats = first.stats

C2_Witness ==
    /\ Reordered
    /\ repos # first.repos
    /\ Len(git["r1"].stats) = MaxStatLines
    /\ SameAttribution
    /\ commit_stats # <<>>
    /\ Cardinality(DOMAIN commit_count_per_day) = 2

\* C3's reading of a log: a field counts when it is a non-negative integer.
ClaimNonNegative(field) ==
    \/ Len(field) = 1 /\ field[1].c = "d"
    \/ Len(field) = 2 /\ field[1].c = "+" /\ field[2].c = "d"

ClaimValue(field) == field[Len(field)].n

ClaimAccepted(line) ==
    /\ Len(line) = 3
    /\ ClaimNonNegative(line[1])
    /\ ClaimNonNegative(line[2])

\* The positions of the date lines of a log, and the date line a position follows.
DateLinesBefore(lines, i) == {j \in 1..(i - 1) : ParseDate(lines[j]).some}

Governs(lines, i, d) ==
    /\ ~ParseDate(lines[i]).some
    /\ DateLinesBefore(lines, i) # {}
    /\ LET j == CHOOSE k \in DateLinesBefore(lines, i) :
                   \A l \in DateLinesBefore(lines, i) : l <= k
       IN ParseDate(lines[j]).v = d

ClaimAcceptedAt(g, paths, d) ==
    {ri \in UNION {{<<r, i>> : i \in 1..Len(g[paths[r]].stats)} : r \in 1..Len(paths)} :
        /\ Governs(g[paths[ri[1]]].stats, ri[2], d)
        /\ ClaimAccepted(g[paths[ri[1]]].stats[ri[2]])}

ClaimDates(g, paths) ==
    UNION {{ParseDate(g[paths[r]].stats[i]).v :
               i \in {k \in 1..Len(g[paths[r]].stats) : ParseDate(g[paths[r]].stats[k]).some}} :
           r \in 1..Len(paths)}

ClaimDailyStats(g, paths) ==
    [d \in {x \in ClaimDates(g, paths) : ClaimAcceptedAt(g, paths, x) # {}} |->
        LET acc == ClaimAcceptedAt(g, paths, d) IN
        <<Cardinality(acc),
          SumOver([ri \in acc |-> ClaimValue(g[paths[ri[1]]].stats[ri[2]][1])], acc),
          SumOver([ri \in acc |-> ClaimValue(g[paths[ri[1]]].stats[ri[2]][2])], acc)>>]

\* C3: once every log is read, DailyStats holds, for each date, the number and
\* the sums of the accepted lines that follow a date line of that date, a line
\* being accepted exactly when it has three fields of which the first two are
\* non-negative integers, and holds no entry for a date without such a line.
C3_StatsOfAcceptedLines ==
    AggregationDone => commit_stats = ClaimDailyStats(git, repos)

-----------------------------------------------------------------------------
(* Properties of the selection and of the returned image. *)

Selected == pc \in {"create", "draw", "returned", "saved"}
Returned == pc \in {"returned", "saved"}
Placeholder == image = <<1, 1>>

\* The commits of a year: the lines of the date logs of all repositories that
\* are dates of that year.
ClaimYearTotal(y) ==
    Cardinality({ri \in UNION {{<<r, i>> : i \in 1..Len(git[repos[r]].dates)} :
                                  r \in 1..Len(repos)} :
                    /\ ParseDate(git[repos[ri[1]]].dates[ri[2]]).some
                    /\ Year(ParseDate(git[repos[ri[1]]].dates[ri[2]]).v) = y})

ClaimYears == {DayA[1], DayB[1], DayC[1], DayD[1]} \cup YearPool \cup {2022, 2023}

ClaimActive == {y \in ClaimYears : ClaimYearTotal(y) >= 5}

NothingDrawn ==
    blocks = {} /\ texts = {} /\ seps = {} /\ squares = {} /\ summaries = {}

\* C4: the returned image is the 1x1 placeholder exactly when no year has 5
\* commits; then nothing was laid out or drawn and the run has not failed; and
\* with an active year the image has the calendar's size.
C4_PlaceholderIffNoActiveYear ==
    /\ Returned => (Placeholder <=> ClaimActive = {})
    /\ Returned /\ Placeholder => NothingDrawn
    /\ Returned /\ ~Placeholder =>
          image = <<Width, Cardinality(ClaimActive) * (year_height + year_spacing)>>
    /\ Selected /\ ClaimActive = {} => Returned /\ Placeholder
    /\ pc = "panicked" => commit_count_per_day = <<>> /\ image = <<0, 0>>

C4_Witness ==
    /\ pc = "returned"
    /\ Placeholder
    /\ ClaimYearTotal(2019) = 4
    /\ ClaimYearTotal(2020) = 4

-----------------------------------------------------------------------------
(* Properties of the colours and of the summary. *)

ClaimClassify(c) ==
    IF c = 0 THEN 0
    ELSE IF c = 1 THEN 1
    ELSE IF c <= 4 THEN 2
    ELSE IF c <= 9 THEN 3
    ELSE IF c <= 19 THEN 4
    ELSE 5

DailyIndexGet(date) ==
    IF date \in DOMAIN commit_count_per_day THEN commit_count_per_day[date] ELSE 0

BlockDate(b) == <<b.year, b.month, b.day>>

\* C6: get_commit_color gives the theme's colour of the count's bucket, and
\* every day block has the colour of the bucket of its date's count, 0 for a
\* date without commits.
C6_BucketColours ==
    /\ \A c \in (0..(2 * MaxPerDay)) \cup {1000} :
          GetCommitColor(c, ThemeOf(theme)) = ThemeOf(theme).commit_colors[ClaimClassify(c) + 1]
    /\ \A b \in blocks :
          b.color = ThemeOf(theme).commit_colors[ClaimClassify(DailyIndexGet(BlockDate(b))) + 1]

C6_Witness ==
    /\ pc = "returned"
    /\ \E b \in blocks : DailyIndexGet(BlockDate(b)) = 4 /\ b.color = ThemeDark.commit_colors[3]
    /\ \E b \in blocks : DailyIndexGet(BlockDate(b)) = 5 /\ b.color = ThemeDark.commit_colors[4]
    /\ \E b \in blocks : DailyIndexGet(BlockDate(b)) = 20 /\ b.color = ThemeDark.commit_colors[6]
    /\ \E b \in blocks : DailyIndexGet(BlockDate(b)) = 0 /\ b.color = ThemeDark.commit_colors[1]

\* C10: every per-day count is at least 1; a year's "commits total" is its
\* entry of the year totals, at least 5; its five legend counts add up to the
\* number of its days with commits; and each legend count is the number of its
\* day blocks with commits that have that bucket's colour.
C10_SummaryConsistent ==
    /\ \A d \in DOMAIN commit_count_per_day : commit_count_per_day[d] >= 1
    /\ \A s \in summaries :
          /\ s.year \in DOMAIN year_commit_counts
          /\ s.year_total = year_commit_counts[s.year]
          /\ s.year_total >= 5
          /\ SumOver(s.level_counts, 0..4) =
                Cardinality({d \in DOMAIN commit_count_per_day : Year(d) = s.year})
          /\ \A i \in 0..4 :
                s.level_counts[i] =
                   Cardinality({b \in blocks :
                                   /\ b.yi = s.yi
                                   /\ BlockDate(b) \in DOMAIN commit_count_per_day
                                   /\ b.color = ThemeOf(theme).commit_colors[i + 2]})

C10_Witness ==
    \E s \in summaries :
        /\ s.year = 2020
        /\ s.year_total = 24
        /\ s.level_counts[1] = 1
        /\ s.level_counts[4] = 1

\* C8: for every year and every bucket with a day in it, the legend row's
\* square and text are drawn together or not at all, not at all exactly when
\* the row does not fit the image, at one vertical position, within the year's
\* own area and below its four summary lines.
C8_LegendRowIsAUnit ==
    \A s \in summaries : \A i \in 0..4 :
        s.level_counts[i] > 0 =>
            LET sq == {q \in squares : q.yi = s.yi /\ q.i = i}
                tx == {t \in texts : t.kind = "legend" /\ t.yi = s.yi /\ t.i = i}
                fits == /\ LegendTextX + block_size * 15 <= image[1]
                        /\ LegendRowY(s.yi, i) + block_size <= image[2]
            IN /\ sq = {} <=> tx = {}
               /\ sq = {} <=> ~fits
               /\ \A q \in sq : \A t \in tx : q.y = t.y
               /\ \A q \in sq :
                     /\ q.y >= YearOffset(s.yi) + block_size + 4 * (block_size + space_size)
                     /\ q.y + block_size <= YearOffset(s.yi + 1)

-----------------------------------------------------------------------------
(* Properties of the layout. *)

ClaimLeap(y) == y % 4 = 0 /\ (y % 100 # 0 \/ y % 400 = 0)

ClaimValidDate(y, m, d) ==
    /\ m \in 1..12
    /\ d >= 1
    /\ d <= (IF m = 2 THEN (IF ClaimLeap(y) THEN 29 ELSE 28)
             ELSE IF m \in {4, 6, 9, 11} THEN 30 ELSE 31)

ClaimFebruary(y) ==
    IF y \in {2000, 2020, 2400} THEN 29
    ELSE IF y \in {1900, 2021, 2100} THEN 28
    ELSE IF ClaimLeap(y) THEN 29 ELSE 28

DrawnYears == 0..(year_index - 1)

\* C5: the day blocks of a drawn year are those of the valid dates of that
\* year and no others, 29 of them in February exactly in a leap year.
C5_BlocksAreValidDates ==
    /\ {<<b.yi, b.year, b.month, b.day>> : b \in blocks} =
          {<<q[1], active_years[q[1] + 1], q[2], q[3]>> :
              q \in {p \in DrawnYears \X (1..12) \X (1..31) :
                        ClaimValidDate(active_years[p[1] + 1], p[2], p[3])}}
    /\ \A yi \in DrawnYears :
          Cardinality({b \in blocks : b.yi = yi /\ b.month = 2}) =
             ClaimFebruary(active_years[yi + 1])

C5_Witness ==
    /\ pc = "returned"
    /\ active_years = <<2000, 1900>>
    /\ Cardinality({b \in blocks : b.yi = 0 /\ b.month = 2}) = 29
    /\ Cardinality({b \in blocks : b.yi = 1 /\ b.month = 2}) = 28

Row(day) == (day - 1) \div 4
Col(day) == (day - 1) % 4

Disjoint(a, b) ==
    \/ a.x + block_size <= b.x
    \/ b.x + block_size <= a.x
    \/ a.y + block_size <= b.y
    \/ b.y + block_size <= a.y

\* C9: every day block sits at its column and row of the month grid, with
\* row < 8, inside the image, inside its year's band below the month labels and
\* left of the summary column; no two day blocks of the returned image
\* overlap; the image is as high as the years need; each separator lies in the
\* gap above its year and touches no day block.
C9_Layout ==
    /\ pc \in {"draw", "returned"} /\ Len(active_years) >= 1 =>
          image = <<Width, Len(active_years) * (year_height + year_spacing)>>
    /\ \A b \in blocks :
          /\ Row(b.day) < 8
          /\ b.x = MonthXOffset(b.month) + Col(b.day) * (block_size + space_size)
          /\ b.y = YearOffset(b.yi) + month_label_height + Row(b.day) * (block_size + space_size)
          /\ b.x >= 0 /\ b.x + block_size <= image[1]
          /\ b.y >= 0 /\ b.y + block_size <= image[2]
          /\ b.y >= YearOffset(b.yi) + month_label_height
          /\ b.y + block_size <= YearOffset(b.yi) + year_height
          /\ b.x + block_size <= SummaryX
    /\ pc = "returned" =>
          \A a \in blocks : \A b \in blocks :
             <<a.yi, a.month, a.day>> # <<b.yi, b.month, b.day>> => Disjoint(a, b)
    /\ {s.yi : s \in seps} = DrawnYears \ {0}
    /\ \A s \in seps :
          /\ s.y >= YearOffset(s.yi - 1) + year_height
          /\ s.y < YearOffset(s.yi)
          /\ s.x0 = 0 /\ s.x1 = image[1]
          /\ \A b \in blocks : s.y < b.y \/ s.y >= b.y + block_size

C9_Witness ==
    /\ pc = "returned"
    /\ Len(active_years) = MaxYears
    /\ Cardinality(seps) = MaxYears - 1
    /\ \E b \in blocks : b.yi = MaxYears - 1 /\ b.day = 31 /\ Row(b.day) = 7

-----------------------------------------------------------------------------
(* Properties of main. *)

\* The arguments after position i other than the '--theme <value>' pairs.
RECURSIVE ClaimPaths(_, _)
ClaimPaths(a, i) ==
    IF i > Len(a) THEN 0
    ELSE IF a[i] = "--theme" /\ i + 1 <= Len(a) THEN ClaimPaths(a, i + 2)
    ELSE 1 + ClaimPaths(a, i + 1)

\* The positional arguments: the author, when there is one, and the paths.
ClaimPositional(a) == (IF Len(a) >= 2 THEN 1 ELSE 0) + ClaimPaths(a, 3)

\* C7: with fewer than 2 positional arguments main exits with status 1 after
\* the usage message: generate_commit_image is not called and no file is
\* written.
GenerateCalled == pc \notin {"main", "parse", "exit1"}

C7_UsageExit ==
    ClaimPositional(args) < 2 => ~GenerateCalled /\ saved = <<>>

====
